---- MODULE Spec2Model ----
(***************************************************************************)
(* Model of src/main.py: a FastAPI application holding per-user chat       *)
(* transcripts in the process-wide dict messages_storage, with a           *)
(* completion client (get_bot_response) and the chat / list / clear        *)
(* handlers.  All handlers are `async def` coroutines of one asyncio event *)
(* loop (uvicorn.run(app) starts a single process).                        *)
(*                                                                         *)
(* Python values.  A str is modelled as a sequence of text chunks, so that *)
(* the f-string "Error: {e}" is a concatenation and "starts with" is a     *)
(* test on the first chunk.  A value that may or may not be a str (the     *)
(* text taken from the upstream JSON body) is a record [kind, s].          *)
(***************************************************************************)
EXTENDS Integers, Sequences, FiniteSets, TLC

\* ------------------------------------------------------------------------
\* Bounds of the model
\* ------------------------------------------------------------------------
MaxReq == 3          \* requests issued in one behaviour of Spec
MaxClock == 1        \* the clock takes the values 0..MaxClock (ms offsets)
MaxReqClient == 1    \* requests issued in one behaviour of SpecClient

Users == {"u1", "u2"}
Questions == {"q1", "q2"}

\* ------------------------------------------------------------------------
\* JSON / Python values
\* ------------------------------------------------------------------------
JStr(s) == [kind |-> "str", s |-> s]
JNull == [kind |-> "null", s |-> << >>]
JArr(items) == [kind |-> "arr", items |-> items]
JObj(fields) == [kind |-> "obj", fields |-> fields]

\* type(x).__name__ as it appears in the TypeError messages
TypeName(x) ==
  CASE x.kind = "null" -> "NoneType"
    [] x.kind = "str" -> "str"
    [] x.kind = "arr" -> "list"
    [] OTHER -> "dict"

\* `k in x` raises TypeError unless x is a container
InRaises(x) == x.kind \notin {"obj", "arr", "str"}
InDetail(x) == <<"argument of type '", TypeName(x), "' is not iterable">>

\* `k in x` for a dict (key test), a list (element test), a str (substring,
\* here: one of the chunks)
Contains(k, x) ==
  CASE x.kind = "obj" -> k \in DOMAIN x.fields
    [] x.kind = "arr" -> \E i \in 1..Len(x.items) :
                            x.items[i].kind = "str" /\ x.items[i].s = <<k>>
    [] x.kind = "str" -> \E i \in 1..Len(x.s) : x.s[i] = k
    [] OTHER -> FALSE

\* len(x) raises TypeError unless x is sized
LenRaises(x) == x.kind \notin {"obj", "arr", "str"}
LenDetail(x) == <<"object of type '", TypeName(x), "' has no len()">>
PyLen(x) ==
  CASE x.kind = "obj" -> Cardinality(DOMAIN x.fields)
    [] x.kind = "arr" -> Len(x.items)
    [] x.kind = "str" -> Len(x.s)
    [] OTHER -> 0

\* x[k] for a str key: KeyError on a dict without k, TypeError otherwise
KeyRaises(x, k) == ~(x.kind = "obj" /\ k \in DOMAIN x.fields)
KeyDetail(x, k) ==
  IF x.kind = "obj" THEN <<"'", k, "'">>
  ELSE IF x.kind = "null" THEN <<"'NoneType' object is not subscriptable">>
  ELSE <<TypeName(x), " indices must be integers">>
GetKey(x, k) == x.fields[k]

\* x[0]: KeyError on a dict (JSON keys are strings), IndexError on an empty
\* list or str, TypeError on None
Index0Raises(x) ==
  ~((x.kind = "arr" /\ Len(x.items) > 0) \/ (x.kind = "str" /\ Len(x.s) > 0))
Index0Detail(x) ==
  IF x.kind = "obj" THEN <<"0">>
  ELSE IF x.kind = "null" THEN <<"'NoneType' object is not subscriptable">>
  ELSE <<TypeName(x), " index out of range">>
GetIndex0(x) == IF x.kind = "arr" THEN x.items[1] ELSE JStr(<<Head(x.s)>>)

Raise(detail) == [raised |-> TRUE, detail |-> detail, val |-> JNull]
Return(v) == [raised |-> FALSE, detail |-> << >>, val |-> v]

FallbackText == <<"I couldn't generate a response. Please try again.">>
ErrorPrefix == "Error: "

\* ------------------------------------------------------------------------
\* Completion client (get_bot_response)
\* ------------------------------------------------------------------------
\* lines 86-93: the walk down data["candidates"][0]["content"]["parts"][0]
\* ["text"], every Python operation with the exception it can raise
ExtractText(data) ==
  IF InRaises(data) THEN Raise(InDetail(data))
  ELSE IF ~Contains("candidates", data) THEN Return(JStr(FallbackText))
  ELSE IF KeyRaises(data, "candidates") THEN Raise(KeyDetail(data, "candidates"))
  ELSE LET cands == GetKey(data, "candidates") IN
  IF LenRaises(cands) THEN Raise(LenDetail(cands))
  ELSE IF ~(PyLen(cands) > 0) THEN Return(JStr(FallbackText))
  ELSE IF Index0Raises(cands) THEN Raise(Index0Detail(cands))
  ELSE LET candidate == GetIndex0(cands) IN
  IF InRaises(candidate) THEN Raise(InDetail(candidate))
  ELSE IF ~Contains("content", candidate) THEN Return(JStr(FallbackText))
  ELSE IF KeyRaises(candidate, "content") THEN Raise(KeyDetail(candidate, "content"))
  ELSE LET content == GetKey(candidate, "content") IN
  IF InRaises(content) THEN Raise(InDetail(content))
  ELSE IF ~Contains("parts", content) THEN Return(JStr(FallbackText))
  ELSE IF KeyRaises(content, "parts") THEN Raise(KeyDetail(content, "parts"))
  ELSE LET parts == GetKey(content, "parts") IN
  IF LenRaises(parts) THEN Raise(LenDetail(parts))
  ELSE IF ~(PyLen(parts) > 0) THEN Return(JStr(FallbackText))
  ELSE IF Index0Raises(parts) THEN Raise(Index0Detail(parts))
  ELSE LET part == GetIndex0(parts) IN
  IF InRaises(part) THEN Raise(InDetail(part))
  ELSE IF ~Contains("text", part) THEN Return(JStr(FallbackText))
  ELSE IF KeyRaises(part, "text") THEN Raise(KeyDetail(part, "text"))
  ELSE Return(GetKey(part, "text"))

\* requests.post raises on a transport failure (line 81)
TransportDetail(t) ==
  IF t = "timeout" THEN <<"Read timed out. (read timeout=30)">>
  ELSE <<"Failed to establish a new connection">>

\* faulty variant: only server errors raise
raise_for_status_5xx(status) == status >= 500 /\ status < 600

\* response.raise_for_status() (line 82) raises HTTPError for 4xx and 5xx
raise_for_status(status) == status >= 400 /\ status < 600
StatusDetail(status) ==
  IF status < 500 THEN <<"Client Error for status ", ToString(status)>>
  ELSE <<"Server Error for status ", ToString(status)>>

\* response.json() (line 84) raises on a body that is not JSON
JSONDetail == <<"Expecting value: line 1 column 1 (char 0)">>

\* the except clause, line 96
ErrorText(detail) == JStr(<<ErrorPrefix>> \o detail)

\* An upstream outcome o is [transport, status, json, data]: whether the
\* round trip completed, the status line, whether the body parses as JSON,
\* and the parsed body.
get_bot_response(question, o) ==
  IF o.transport # "ok" THEN ErrorText(TransportDetail(o.transport))
  ELSE IF raise_for_status(o.status) THEN ErrorText(StatusDetail(o.status))
  ELSE IF ~o.json THEN ErrorText(JSONDetail)
  ELSE LET r == ExtractText(o.data) IN
       IF r.raised THEN ErrorText(r.detail) ELSE r.val

\* ------------------------------------------------------------------------
\* Upstream outcomes the completion endpoint can produce
\* ------------------------------------------------------------------------
AnswerText == <<"A gerund is a verb form...">>
Part(t) == JObj([text |-> t])
Body(parts) == JObj([candidates |-> JArr(<<JObj([content |-> JObj([parts |-> parts])])>>)])
Http(status, data) == [transport |-> "ok", status |-> status, json |-> TRUE, data |-> data]
Failed(t) == [transport |-> t, status |-> 0, json |-> FALSE, data |-> JNull]
NoFields == [k \in {} |-> JNull]

Outcomes ==
  << Http(200, Body(JArr(<<Part(JStr(AnswerText))>>))),                 \* 1 well-formed
     Http(200, Body(JArr(<<Part(JNull)>>))),                            \* 2 text: null
     Failed("timeout"),                                                 \* 3
     Failed("connection"),                                              \* 4
     Http(404, JObj(NoFields)),                                         \* 5
     Http(503, JObj(NoFields)),                                         \* 6
     Http(300, Body(JArr(<<Part(JStr(AnswerText))>>))),                 \* 7 3xx, not followed
     [transport |-> "ok", status |-> 200, json |-> FALSE, data |-> JNull], \* 8 not JSON
     Http(200, JObj(NoFields)),                                         \* 9 no candidates
     Http(200, JObj([candidates |-> JArr(<< >>)])),                     \* 10 empty candidates
     Http(200, JObj([candidates |-> JArr(<<JObj(NoFields)>>)])),        \* 11 no content
     Http(200, JObj([candidates |-> JArr(<<JObj([content |-> JObj(NoFields)])>>)])), \* 12 no parts
     Http(200, Body(JArr(<< >>))),                                      \* 13 empty parts
     Http(200, Body(JArr(<<JObj(NoFields)>>))),                         \* 14 no text
     Http(200, JNull),                                                  \* 15 body: null
     Http(200, JObj([candidates |-> JNull])),                           \* 16 candidates: null
     Http(200, JObj([candidates |-> JObj([first |-> JNull])])),         \* 17 candidates: object
     Http(200, JObj([candidates |-> JArr(<<JNull>>)])),                 \* 18 candidate: null
     Http(200, JObj([candidates |-> JArr(<<JObj([content |-> JNull])>>)])), \* 19 content: null
     Http(200, Body(JNull)),                                            \* 20 parts: null
     Http(200, Body(JArr(<<JNull>>))),                                  \* 21 part: null
     Http(200, JArr(<< >>)) >>                                          \* 22 body: []

\* the outcomes drawn in the system specification (the two kinds of value
\* get_bot_response hands to chat: a str, None) and in the client
\* specification (all of them)
SysOutcomes == 1..2
AllOutcomes == 1..Len(Outcomes)

\* ------------------------------------------------------------------------
\* State
\* ------------------------------------------------------------------------
VARIABLES
  messages_storage,  \* the dict user_id -> list of message dicts (line 34)
  clock,             \* the last value int(time.time() * 1000) returned
  pending,           \* requests received and not yet dispatched, per kind
  frames,            \* chat coroutines that have started and not returned,
                     \* with their locals and the upstream outcome they got
  running,           \* id of the coroutine that holds the event loop, or 0
  returned,          \* number of requests that have returned, per (op, user)
  resp               \* the response sent last

vars == <<messages_storage, clock, pending, frames, running, returned, resp>>

NoQuestion == ""
ReqKinds ==
  [op : {"chat"}, user_id : Users, question : Questions]
    \cup [op : {"list", "clear"}, user_id : Users, question : {NoQuestion}]
Req(op, u, q) == [op |-> op, user_id |-> u, question |-> q]
OpUsers == {"chat", "list", "clear"} \X Users

RECURSIVE SumOver(_, _)
SumOver(f, S) ==
  IF S = {} THEN 0
  ELSE LET x == CHOOSE y \in S : TRUE IN f[x] + SumOver(f, S \ {x})

NumPending == SumOver(pending, ReqKinds)
NumReturned == SumOver(returned, OpUsers)
NumIssued == NumPending + Cardinality(frames) + NumReturned

\* class Message (lines 40-45), built as a dict at lines 126-132 and 141-147
Message(id, u, text, sender, ts) ==
  [id |-> id, user_id |-> u, text |-> text, sender |-> sender, timestamp |-> ts]

\* pydantic: a field declared `str` rejects None (and every non-str)
IsStr(v) == v.kind = "str"
\* MessagesResponse(messages=...) validates every dict against Message
ValidMessages(msgs) == \A i \in 1..Len(msgs) : IsStr(msgs[i].text)

\* `if user_id not in messages_storage: messages_storage[user_id] = []`
EnsureUser(store, u) ==
  IF u \in DOMAIN store THEN store
  ELSE [v \in DOMAIN store \cup {u} |-> IF v = u THEN << >> ELSE store[v]]

\* faulty variants: the transcript emptied but its key kept; the whole
\* store cleared
DeleteUser_empty(store, u) == [store EXCEPT ![u] = << >>]
DeleteUser_all(store, u) == [v \in {} |-> << >>]

\* `del messages_storage[user_id]`
DeleteUser(store, u) == [v \in DOMAIN store \ {u} |-> store[v]]

\* messages_storage.get(user_id, [])
GetOrEmpty(store, u) == IF u \in DOMAIN store THEN store[u] ELSE << >>

NoResp ==
  [op |-> "none", user_id |-> "", status |-> 0, user_message |-> JNull,
   bot_response |-> JNull, timestamp |-> -1, messages |-> << >>,
   message |-> << >>]

\* HTTPException(status_code=500, ...) raised by a handler's except clause
ServerError(op, u) == [NoResp EXCEPT !.op = op, !.user_id = u, !.status = 500]

Init ==
  /\ messages_storage = [u \in {} |-> << >>]
  /\ clock = 0
  /\ pending = [k \in ReqKinds |-> 0]
  /\ frames = {}
  /\ running = 0
  /\ returned = [k \in OpUsers |-> 0]
  /\ resp = NoResp

\* ------------------------------------------------------------------------
\* Environment
\* ------------------------------------------------------------------------
\* a client sends a request; it waits in the event loop until dispatched
Arrive(k, max) ==
  /\ NumIssued < max
  /\ pending' = [pending EXCEPT ![k] = @ + 1]
  /\ UNCHANGED <<messages_storage, clock, frames, running, returned, resp>>

\* ------------------------------------------------------------------------
\* Event loop
\* ------------------------------------------------------------------------
\* faulty variant: the completion call is awaited, the coroutine releases
\* the event loop and other handlers run between its steps
HoldLoop_await(id) == 0

\* `async def chat` calls the synchronous get_bot_response without an await:
\* the coroutine keeps the event loop from its first line to its return
HoldLoop(id) == id

NextId == Cardinality(frames) + NumReturned + 1

Done(k) == [returned EXCEPT ![<<k.op, k.user_id>>] = @ + 1]

\* ------------------------------------------------------------------------
\* POST /api/chat
\* ------------------------------------------------------------------------
\* faulty variant: ids counted from 0
NextMsgId_zero(transcript) == Len(transcript)

\* line 123: msg_id = len(messages_storage[user_id]) + 1
NextMsgId(transcript) == Len(transcript) + 1

\* faulty variant: the reply stamped two milliseconds after the question
BotTimestamp_two(timestamp) == timestamp + 2

\* line 146: the reply is stamped one millisecond after the question
BotTimestamp(timestamp) == timestamp + 1

\* line 117: the clock never goes backwards; it may return the value it
\* returned to the previous request
ClockReadings == clock..MaxClock

\* lines 116-134: read the clock (it returns t), create the transcript,
\* store the question
chat_begin(u, q, t) ==
  LET k == Req("chat", u, q)
      timestamp == t
      store1 == EnsureUser(messages_storage, u)
      msg_id == NextMsgId(store1[u])
      user_msg == Message(msg_id, u, JStr(<<q>>), "user", timestamp)
      id == NextId
  IN /\ running = 0
     /\ pending[k] > 0
     /\ t \in ClockReadings
     /\ pending' = [pending EXCEPT ![k] = @ - 1]
     /\ messages_storage' = [store1 EXCEPT ![u] = Append(@, user_msg)]
     /\ frames' = frames \cup
          {[id |-> id, user_id |-> u, question |-> q, pc |-> "call",
            timestamp |-> timestamp, msg_id |-> msg_id,
            outcome |-> 0, response_text |-> JNull]}
     /\ running' = HoldLoop(id)
     /\ clock' = timestamp
     /\ UNCHANGED <<returned, resp>>

\* line 137: the completion call, with upstream outcome number i
chat_call(f, i) ==
  /\ f \in frames
  /\ f.pc = "call"
  /\ running = HoldLoop(f.id)
  /\ frames' = (frames \ {f}) \cup
       {[f EXCEPT !.pc = "save", !.outcome = i,
                  !.response_text = get_bot_response(f.question, Outcomes[i])]}
  /\ UNCHANGED <<messages_storage, clock, pending, running, returned, resp>>

\* lines 139-159: store the reply, build the ChatResponse, return
chat_finish(f) ==
  LET u == f.user_id
      msg_id == f.msg_id + 1
      bot_msg == Message(msg_id, u, f.response_text, "bot", BotTimestamp(f.timestamp))
  IN /\ f \in frames
     /\ f.pc = "save"
     /\ running = HoldLoop(f.id)
     /\ frames' = frames \ {f}
     /\ running' = 0
     /\ returned' = Done(Req("chat", u, f.question))
     /\ IF u \notin DOMAIN messages_storage
        THEN \* messages_storage[user_id] raises KeyError: except, line 159
             /\ messages_storage' = messages_storage
             /\ resp' = ServerError("chat", u)
        ELSE /\ messages_storage' = [messages_storage EXCEPT ![u] = Append(@, bot_msg)]
             /\ resp' = IF IsStr(f.response_text)
                        THEN [NoResp EXCEPT !.op = "chat", !.user_id = u,
                                !.status = 200,
                                !.user_message = JStr(<<f.question>>),
                                !.bot_response = f.response_text,
                                !.timestamp = f.timestamp]
                        ELSE \* ChatResponse(...) raises ValidationError
                             ServerError("chat", u)
     /\ UNCHANGED <<clock, pending>>

\* ------------------------------------------------------------------------
\* GET /api/messages/{user_id}
\* ------------------------------------------------------------------------
get_messages(u) ==
  LET k == Req("list", u, NoQuestion)
      store1 == EnsureUser(messages_storage, u)
      messages == store1[u]
  IN /\ running = 0
     /\ pending[k] > 0
     /\ pending' = [pending EXCEPT ![k] = @ - 1]
     /\ messages_storage' = store1
     /\ returned' = Done(k)
     /\ resp' = IF ValidMessages(messages)
                THEN [NoResp EXCEPT !.op = "list", !.user_id = u,
                        !.status = 200, !.messages = messages]
                ELSE \* MessagesResponse(...) raises ValidationError
                     ServerError("list", u)
     /\ UNCHANGED <<clock, frames, running>>

\* ------------------------------------------------------------------------
\* DELETE /api/messages/{user_id}
\* ------------------------------------------------------------------------
DeletedMessage(count) == <<"Deleted ", ToString(count), " messages">>

clear_messages(u) ==
  LET k == Req("clear", u, NoQuestion)
      count == Len(GetOrEmpty(messages_storage, u))
  IN /\ running = 0
     /\ pending[k] > 0
     /\ pending' = [pending EXCEPT ![k] = @ - 1]
     /\ messages_storage' = IF u \in DOMAIN messages_storage
                            THEN DeleteUser(messages_storage, u)
                            ELSE messages_storage
     /\ returned' = Done(k)
     /\ resp' = [NoResp EXCEPT !.op = "clear", !.user_id = u, !.status = 200,
                   !.message = DeletedMessage(count)]
     /\ UNCHANGED <<clock, frames, running>>

\* ------------------------------------------------------------------------
\* Specifications
\* ------------------------------------------------------------------------
Next ==
  \/ \E k \in ReqKinds : Arrive(k, MaxReq)
  \/ \E u \in Users, q \in Questions, t \in ClockReadings : chat_begin(u, q, t)
  \/ \E f \in frames, i \in SysOutcomes : chat_call(f, i)
  \/ \E f \in frames : chat_finish(f)
  \/ \E u \in Users : get_messages(u)
  \/ \E u \in Users : clear_messages(u)

Spec == Init /\ [][Next]_vars

\* one request at a time against every upstream outcome
NextClient ==
  \/ \E k \in ReqKinds : Arrive(k, MaxReqClient)
  \/ \E u \in Users, q \in Questions, t \in ClockReadings : chat_begin(u, q, t)
  \/ \E f \in frames, i \in AllOutcomes : chat_call(f, i)
  \/ \E f \in frames : chat_finish(f)
  \/ \E u \in Users : get_messages(u)
  \/ \E u \in Users : clear_messages(u)

SpecClient == Init /\ [][NextClient]_vars

\* ------------------------------------------------------------------------
\* Properties
\* ------------------------------------------------------------------------
StartsWithError(v) == v.kind = "str" /\ Len(v.s) >= 1 /\ v.s[1] = ErrorPrefix
FramesOf(u) == {f \in frames : f.user_id = u}
Ids(t) == {t[i].id : i \in 1..Len(t)}

\* C1: for every user, question and upstream outcome, a chat request grows
\* the user's transcript by exactly two messages, the question (sender
\* user) and then the reply returned to the client (sender bot), with
\* bot.id = user.id + 1, bot.timestamp = user.timestamp + 1, and the
\* response carries the question, the reply and the user message's
\* timestamp.
C1_ChatAppendsPair ==
  [][\A f \in frames : chat_finish(f) =>
       LET u == f.user_id
           t == GetOrEmpty(messages_storage', u)
           n == Len(t)
       IN /\ n = (f.msg_id - 1) + 2
          /\ SubSeq(t, 1, n - 1) = GetOrEmpty(messages_storage, u)
          /\ t[n - 1].sender = "user" /\ t[n - 1].text = JStr(<<f.question>>)
          /\ t[n].sender = "bot"
          /\ t[n].id = t[n - 1].id + 1
          /\ t[n].timestamp = t[n - 1].timestamp + 1
          /\ resp'.op = "chat" /\ resp'.status = 200
          /\ resp'.user_message = JStr(<<f.question>>)
          /\ resp'.bot_response = t[n].text
          /\ resp'.timestamp = t[n - 1].timestamp]_vars

\* C2: in every reachable state the message at position i of a transcript
\* has id i (so ids are unique, strictly increasing, and restart at 1 in
\* the transcript created after a clear).
C2_IdIsPosition ==
  \A u \in DOMAIN messages_storage :
    \A i \in 1..Len(messages_storage[u]) : messages_storage[u][i].id = i

\* two chats and a clear of the same user have returned and the transcript
\* holds the second chat only, numbered from 1
C2_Witness ==
  \E u \in Users :
    /\ returned[<<"chat", u>>] = 2 /\ returned[<<"clear", u>>] = 1
    /\ u \in DOMAIN messages_storage
    /\ Len(messages_storage[u]) = 2
    /\ messages_storage[u][1].id = 1 /\ messages_storage[u][2].id = 2

\* C3: while no clear of u has run, the chat requests of u, however many
\* are in flight together, leave a transcript whose ids are exactly
\* 1..length, each once, with two messages per returned request (plus the
\* question of the request being served): once all N have returned the
\* transcript holds 2N messages with ids 1..2N.
C3_ConcurrentChatsContiguous ==
  \A u \in Users :
    (returned[<<"clear", u>>] = 0 /\ returned[<<"chat", u>>] + Cardinality(FramesOf(u)) > 0) =>
      /\ u \in DOMAIN messages_storage
      /\ Len(messages_storage[u]) =
           2 * returned[<<"chat", u>>] + Cardinality(FramesOf(u))
      /\ Ids(messages_storage[u]) = 1..Len(messages_storage[u])
      /\ Cardinality(Ids(messages_storage[u])) = Len(messages_storage[u])

\* one chat of u has returned, a second is being served and a third is
\* waiting in the event loop: requests of the same user in flight together
C3_Witness ==
  \E u \in Users :
    /\ returned[<<"chat", u>>] = 1 /\ returned[<<"clear", u>>] = 0
    /\ \E f \in FramesOf(u) : f.pc = "save"
    /\ \E q \in Questions : pending[Req("chat", u, q)] > 0
    /\ Len(messages_storage[u]) = 3

\* the last two messages of u's transcript are the question and the reply
\* of the chat request that just returned response r
StoredPair(store, u, r) ==
  /\ u \in DOMAIN store
  /\ Len(store[u]) >= 2
  /\ LET n == Len(store[u]) IN
       /\ store[u][n - 1].sender = "user"
       /\ store[u][n - 1].text = r.user_message
       /\ store[u][n].sender = "bot"
       /\ store[u][n].text = r.bot_response

\* C4 as stated: when the completion call fails upstream (transport error,
\* timeout, or a status outside 2xx) the chat request ends with status 200,
\* bot_response starts with "Error:", and the question and that error
\* reply are both stored.
NonSuccess(o) == o.transport # "ok" \/ o.status \notin 200..299
ErrorOutcome(o) == o.transport # "ok" \/ o.status \in 400..599
C5_ClearReportsAndRemoves ==
  [][/\ \A u \in Users : clear_messages(u) =>
          /\ resp'.op = "clear" /\ resp'.status = 200
          /\ resp'.message = DeletedMessage(Len(GetOrEmpty(messages_storage, u)))
          /\ u \notin DOMAIN messages_storage'
          /\ u \notin DOMAIN messages_storage =>
               /\ resp'.message = DeletedMessage(0)
               /\ messages_storage' = messages_storage
          /\ (resp.op = "clear" /\ resp.user_id = u) =>
               resp'.message = DeletedMessage(0)
     /\ \A u \in Users :
          (get_messages(u) /\ resp.op = "clear" /\ resp.user_id = u) =>
             resp'.status = 200 /\ resp'.messages = << >>]_vars

\* a clear of a user holding two messages has returned "Deleted 2 messages"
\* and the user's key is gone
C5_Witness ==
  /\ resp.op = "clear" /\ resp.status = 200
  /\ resp.message = DeletedMessage(2)
  /\ returned[<<"chat", resp.user_id>>] = 1
  /\ resp.user_id \notin DOMAIN messages_storage

\* C6: a list of u never fails: it returns status 200 with exactly u's
\* stored messages in order (empty when u has none) and changes the store
\* only by adding an empty transcript for u when none existed.
C6_ListNeverFails ==
  [][\A u \in Users : get_messages(u) =>
       /\ resp'.op = "list" /\ resp'.status = 200
       /\ resp'.messages = GetOrEmpty(messages_storage, u)
       /\ messages_storage' = EnsureUser(messages_storage, u)]_vars

\* the body has candidates[0].content.parts[0].text, a string
HasText(o) ==
  /\ o.json
  /\ o.data.kind = "obj" /\ "candidates" \in DOMAIN o.data.fields
  /\ LET cands == o.data.fields["candidates"] IN
     /\ cands.kind = "arr" /\ Len(cands.items) > 0
     /\ cands.items[1].kind = "obj" /\ "content" \in DOMAIN cands.items[1].fields
     /\ LET content == cands.items[1].fields["content"] IN
        /\ content.kind = "obj" /\ "parts" \in DOMAIN content.fields
        /\ LET parts == content.fields["parts"] IN
           /\ parts.kind = "arr" /\ Len(parts.items) > 0
           /\ parts.items[1].kind = "obj" /\ "text" \in DOMAIN parts.items[1].fields
           /\ parts.items[1].fields["text"].kind = "str"
TextOf(o) == o.data.fields["candidates"].items[1].fields["content"].fields["parts"].items[1].fields["text"]

\* C7: get_bot_response returns a string in every case: "Error: ..." on a
\* transport failure, timeout or status outside 2xx; the text on a 2xx
\* body that has candidates[0].content.parts[0].text; the fallback literal
\* on every other 2xx body.
C7_ClientResultByOutcome ==
  \A f \in frames : f.pc = "save" =>
    LET o == Outcomes[f.outcome]
        r == f.response_text
    IN /\ r.kind = "str"
       /\ IF NonSuccess(o) THEN StartsWithError(r)
          ELSE IF HasText(o) THEN r = TextOf(o)
          ELSE r = JStr(FallbackText)

\* sender and timestamps pair the messages two by two
PairedTranscript(t) ==
  /\ Len(t) % 2 = 0
  /\ \A i \in 1..Len(t) :
       IF i % 2 = 1
       THEN t[i].sender = "user"
       ELSE /\ t[i].sender = "bot"
            /\ t[i].id = t[i - 1].id + 1
            /\ t[i].timestamp = t[i - 1].timestamp + 1

\* C8: under every interleaving, the transcript a list request reads and
\* the transcript a clear request counts consist of whole question/reply
\* pairs, and a chat request that returns (200 or 500) leaves its question
\* and its reply as the last two messages of the transcript.
C8_PairsAreAtomic ==
  [][/\ \A u \in Users : get_messages(u) =>
          PairedTranscript(GetOrEmpty(messages_storage, u))
     /\ \A u \in Users : clear_messages(u) =>
          PairedTranscript(GetOrEmpty(messages_storage, u))
     /\ \A f \in frames : chat_finish(f) =>
          LET t == GetOrEmpty(messages_storage', f.user_id) IN
            /\ Len(t) = f.msg_id + 1
            /\ PairedTranscript(t)
            /\ t[f.msg_id].text = JStr(<<f.question>>)
            /\ t[f.msg_id + 1].text = f.response_text]_vars

\* a clear of u is waiting while a chat of u has stored its question and is
\* past the completion call
C8_Witness ==
  \E f \in frames :
    /\ f.pc = "save"
    /\ pending[Req("clear", f.user_id, NoQuestion)] > 0
    /\ Len(messages_storage[f.user_id]) % 2 = 1

\* C9 as stated: with a clock that never goes backwards, timestamps within
\* a transcript are non-decreasing in insertion order.
C9_TimestampsNonDecreasing ==
  \A u \in DOMAIN messages_storage :
    \A i, j \in 1..Len(messages_storage[u]) :
      i < j => messages_storage[u][i].timestamp <= messages_storage[u][j].timestamp

\* C9 amended: with a clock that never goes backwards, a later message is
\* never stamped more than one millisecond before an earlier one, and
\* among messages of the same sender timestamps are non-decreasing.
C9_TimestampsWithinOne ==
  \A u \in DOMAIN messages_storage :
    \A i, j \in 1..Len(messages_storage[u]) :
      i < j =>
        /\ messages_storage[u][j].timestamp >= messages_storage[u][i].timestamp - 1
        /\ messages_storage[u][i].sender = messages_storage[u][j].sender =>
             messages_storage[u][i].timestamp <= messages_storage[u][j].timestamp

\* two chats of one user read the same millisecond: the second question is
\* stamped one below the first reply
C9_Witness ==
  \E u \in DOMAIN messages_storage :
    /\ Len(messages_storage[u]) = 4
    /\ messages_storage[u][3].timestamp = messages_storage[u][2].timestamp - 1

\* C10: a request for u leaves the presence and the contents of every other
\* user's transcript unchanged, and every message stored under u has
\* user_id = u.
OthersUnchanged(u) ==
  \A v \in Users \ {u} :
    /\ (v \in DOMAIN messages_storage') = (v \in DOMAIN messages_storage)
    /\ v \in DOMAIN messages_storage => messages_storage'[v] = messages_storage[v]
C10_UsersIsolated ==
  [][/\ \A u \in Users, q \in Questions, t \in ClockReadings :
          chat_begin(u, q, t) => OthersUnchanged(u)
     /\ \A f \in frames : chat_finish(f) => OthersUnchanged(f.user_id)
     /\ \A u \in Users : get_messages(u) => OthersUnchanged(u)
     /\ \A u \in Users : clear_messages(u) => OthersUnchanged(u)
     /\ \A u \in DOMAIN messages_storage' :
          \A i \in 1..Len(messages_storage'[u]) :
            messages_storage'[u][i].user_id = u]_vars

\* a clear of one user deleted two messages while another user's two
\* messages stay in the store
C10_Witness ==
  \E v \in DOMAIN messages_storage :
    /\ resp.op = "clear" /\ resp.user_id # v
    /\ resp.message = DeletedMessage(2)
    /\ Len(messages_storage[v]) = 2
====
